---- MODULE Spec2Model ----
(***************************************************************************)
(* Model of amf_rotary_valve.device.AMFDevice: one session object, its     *)
(* background tasks (_main_func, _read_loop), the serial link behind the   *)
(* executor threads, and NCallers coroutines that each call one of         *)
(* _query (get_valve ...), _run (home, rotate, wait) or close.             *)
(*                                                                         *)
(* The asyncio event loop is modelled by its queue of woken tasks, ready.  *)
(* A task step runs one task from the point where it was woken to its next *)
(* suspension.  Events come from outside the loop's queue: an executor     *)
(* thread finishing a serial read or write, a wait_for timer firing, and   *)
(* the application making a call or cancelling a caller.  A future is      *)
(* identified by a number: QFut(c) is the future _query made for caller c, *)
(* MFut(c) the one _run made for caller c.                                 *)
(***************************************************************************)
EXTENDS Integers, Sequences, FiniteSets, TLC

\* Bounds of the model.
NCallers == 3
MaxFrames == 4
MaxCancels == 1

Callers == 1..NCallers
None == 0
QFut(c) == c
MFut(c) == NCallers + c
FutIds == 1..(2 * NCallers)
\* The two background tasks, numbered after the callers.
MainT == NCallers + 1
ReadT == NCallers + 2

VARIABLES
  closing,        \* self._closing
  serial,         \* self._serial: "open", or "closed" once closed and set to None
  busy,           \* self._busy
  busy_future,    \* self._busy_future: a future id, or None
  query_futures,  \* self._query_futures: sequence of future ids
  closed_exc,     \* self._closed_exc: "pending" or "exception"
  fut,            \* state of every asyncio.Future: none/pending/result/exception/cancelled
  res,            \* the frame a future was resolved with (state "result")
  waiters,        \* the callers suspended on each future, in the order they began to wait
  ready,          \* the event loop: the woken tasks, in the order they were woken
  mainpc,         \* position of self._main_task in _main_func
  mainout,        \* how _main_task ended
  main_cancel,    \* a cancel() of _main_task not yet delivered
  mainwaiters,    \* the callers suspended on _main_task, in the order they began to wait
  readpc,         \* position of read_task in _read_loop
  readout,        \* how read_task ended
  rdata,          \* the frame read_task was woken with
  op,             \* the operation each caller runs
  pc,             \* position of each caller in its operation
  outcome,        \* what each caller's operation returned or raised
  retval,         \* the value a query returned
  guard,          \* the future a _run caller awaits in the while loop (line 198)
  waitset,        \* the futures a close() caller passed to asyncio.wait (line 107)
  wire,           \* the link: callers whose command was written, in write order
  acked,          \* the link: number of writes the instrument has answered
  linkup,         \* the link: FALSE once it has broken
  moving,         \* the instrument: motion commands received and not completed
  issued,         \* history: callers in the order _query appended their future
  rx,             \* history: payloads of the frames _receive was given
  ncancel,        \* history: task.cancel() calls on callers
  timedout,       \* history: the callers whose wait_for timer has fired
  lostWaiters     \* history: the callers that were waiting when a read failed

session == <<closing, serial, busy, busy_future, query_futures, closed_exc>>
futs    == <<fut, res, waiters>>
tasks   == <<mainpc, mainout, main_cancel, mainwaiters, readpc, readout, rdata>>
callers == <<op, pc, outcome, retval, guard, waitset>>
link    == <<wire, acked, linkup, moving>>
hist    == <<issued, rx, ncancel, timedout, lostWaiters>>

vars == <<session, futs, ready, tasks, callers, link, hist>>

----------------------------------------------------------------------------
\* Helpers on sequences, futures and the ready queue.

InSeq(x, s) == \E i \in 1..Len(s) : s[i] = x

IndexOf(x, s) == CHOOSE i \in 1..Len(s) : s[i] = x /\ \A j \in 1..(i - 1) : s[j] # x

\* list.remove(x): drops the first occurrence of x.
Remove(x, s) ==
  LET k == IndexOf(x, s)
  IN [i \in 1..(Len(s) - 1) |-> IF i < k THEN s[i] ELSE s[i + 1]]

Without(x, s) == IF InSeq(x, s) THEN Remove(x, s) ELSE s

AppendNew(s, x) == IF InSeq(x, s) THEN s ELSE Append(s, x)

RECURSIVE SeqOf(_)
SeqOf(S) ==
  IF S = {} THEN <<>>
  ELSE LET m == CHOOSE x \in S : \A y \in S : x <= y
       IN <<m>> \o SeqOf(S \ {m})

DoneStates == {"result", "exception", "cancelled"}

Done(f) == f # None /\ fut[f] \in DoneStates

\* The frame bytes after the terminator is stripped: bit 5 of the status byte
\* and the payload (the caller whose write it answers, 0 when it answers none).
Frame(bit5, p) == [bit5 |-> bit5, payload |-> p]

\* _parse with dtype None: the payload text.
Parse(data) == data.payload

\* (data[2] & (1 << 5)) < 1
BusyOf(data) == ~data.bit5

\* A task woken through a chain of callbacks (shield and asyncio.wait in
\* _main_func, asyncio.wait in close, shield in closed) runs some loop
\* iterations after its cause: tasks woken later can run before it.
Slow(t) ==
  \/ t = MainT /\ mainpc = "m_wait"
  \/ t \in Callers /\ pc[t] \in {"c_wait", "q_closed"}

\* The loop runs the woken tasks in the order they were woken.
Runnable(t) ==
  \E i \in 1..Len(ready) : ready[i] = t /\ \A j \in 1..(i - 1) : Slow(ready[j])

\* The callers woken when the futures fs (a sequence) are resolved.
RECURSIVE WaitersOf(_)
WaitersOf(fs) ==
  IF fs = <<>> THEN <<>> ELSE waiters[Head(fs)] \o WaitersOf(Tail(fs))

\* The close() callers whose asyncio.wait is over once the futures are as in f2.
ClosersDone(q, f2) ==
  SeqOf({k \in Callers : /\ pc[k] = "c_wait"
                         /\ ~InSeq(k, q)
                         /\ \A f \in waitset[k] : f2[f] \in DoneStates})

\* The ready queue q after the futures fs were resolved, giving states f2.
Resolved(q, fs, f2) == (q \o WaitersOf(fs)) \o ClosersDone(q, f2)

Forget(fs) == [f \in FutIds |-> IF InSeq(f, fs) THEN <<>> ELSE waiters[f]]

\* _main_task is woken when what it awaits is done.
WakeMain(q) == IF mainpc \in {"m_wait", "m_join"} THEN AppendNew(q, MainT) ELSE q

Init ==
  /\ closing = FALSE
  /\ serial = "open"
  /\ busy = FALSE
  /\ busy_future = None
  /\ query_futures = <<>>
  /\ closed_exc = "pending"
  /\ fut = [f \in FutIds |-> "none"]
  /\ res = [f \in FutIds |-> Frame(FALSE, 0)]
  /\ waiters = [f \in FutIds |-> <<>>]
  /\ ready = <<MainT>>
  /\ mainpc = "m_init"
  /\ mainout = "none"
  /\ main_cancel = FALSE
  /\ mainwaiters = <<>>
  /\ readpc = "none"
  /\ readout = "none"
  /\ rdata = Frame(FALSE, 0)
  /\ op = [c \in Callers |-> "none"]
  /\ pc = [c \in Callers |-> "idle"]
  /\ outcome = [c \in Callers |-> "none"]
  /\ retval = [c \in Callers |-> 0]
  /\ guard = [c \in Callers |-> None]
  /\ waitset = [c \in Callers |-> {}]
  /\ wire = <<>>
  /\ acked = 0
  /\ linkup = TRUE
  /\ moving = 0
  /\ issued = <<>>
  /\ rx = <<>>
  /\ ncancel = 0
  /\ timedout = {}
  /\ lostWaiters = {}

----------------------------------------------------------------------------
\* The background task: _main_func.

\* First step of _main_func: creates read_task and waits on the shielded
\* asyncio.wait (lines 51-57).  A task cancelled before its first step never
\* runs its body.
MainStart ==
  /\ mainpc = "m_init"
  /\ Runnable(MainT)
  /\ IF main_cancel
       THEN /\ mainpc' = "done"
            /\ mainout' = "Cancelled"
            /\ main_cancel' = FALSE
            /\ ready' = Without(MainT, ready) \o mainwaiters
            /\ mainwaiters' = <<>>
            /\ UNCHANGED <<readpc, readout>>
       ELSE /\ mainpc' = "m_wait"
            /\ readpc' = "reading"
            /\ ready' = Without(MainT, ready)
            /\ UNCHANGED <<mainout, main_cancel, mainwaiters, readout>>
  /\ UNCHANGED <<session, futs, rdata, callers, link, hist>>

\* The loop of lines 64-65 left out: no future of the queue is failed.
FailAllSkipped(fs, f, failed) == [fut |-> f, ok |-> TRUE, failed |-> failed]

\* for future in self._query_futures: future.set_exception(...) (lines 64-65).
\* set_exception on a future that is done raises InvalidStateError and ends
\* the loop: ok is FALSE and the futures after it are left as they were.
RECURSIVE FailAll(_, _, _)
FailAll(fs, f, failed) ==
  IF fs = <<>> THEN [fut |-> f, ok |-> TRUE, failed |-> failed]
  ELSE IF f[Head(fs)] # "pending" THEN [fut |-> f, ok |-> FALSE, failed |-> failed]
  ELSE FailAll(Tail(fs), [f EXCEPT ![Head(fs)] = "exception"], Append(failed, Head(fs)))

\* What _main_func ends with once read_task is done (lines 75-83).
MainResult(rout) ==
  IF rout = "SerialErr" THEN "LostErr"
  ELSE IF rout = "Cancelled"
         THEN (IF closed_exc = "exception" THEN "LostErr" ELSE "ok")
  ELSE rout

\* The teardown of _main_func (lines 58-76): the task was woken because
\* _closed_exc or read_task is done, or because close() cancelled it.
\* read_task.cancel() (line 72) ends a read_task that is not done, dropping a
\* frame it was woken with.
MainTeardown ==
  /\ mainpc = "m_wait"
  /\ Runnable(MainT)
  /\ main_cancel' = FALSE
  /\ LET bfDone == busy_future # None /\ fut[busy_future] # "pending"
         f1 == IF busy_future # None /\ ~bfDone
                 THEN [fut EXCEPT ![busy_future] = "exception"] ELSE fut
         r == FailAll(query_futures, f1,
                      IF busy_future # None /\ ~bfDone THEN <<busy_future>> ELSE <<>>)
         f2 == IF bfDone THEN fut ELSE r.fut
         fs == IF bfDone THEN <<>> ELSE r.failed
         q == Resolved(Without(MainT, ready), fs, f2)
     IN /\ fut' = f2
        /\ waiters' = Forget(fs)
        /\ IF bfDone \/ ~r.ok
             THEN /\ mainpc' = "done"
                  /\ mainout' = "InvalidState"
                  /\ ready' = q \o mainwaiters
                  /\ mainwaiters' = <<>>
                  /\ UNCHANGED <<serial, closing, readpc, readout>>
             ELSE /\ serial' = "closed"
                  /\ closing' = TRUE
                  /\ IF readpc = "done"
                       THEN /\ mainpc' = "done"
                            /\ mainout' = MainResult(readout)
                            /\ ready' = q \o mainwaiters
                            /\ mainwaiters' = <<>>
                            /\ UNCHANGED <<readpc, readout>>
                       ELSE /\ mainpc' = "m_join"
                            /\ UNCHANGED <<mainout, mainwaiters>>
                            /\ IF ~closing
                                 THEN /\ readpc' = "done"
                                      /\ readout' = "Cancelled"
                                      /\ ready' = Append(Without(ReadT, q), MainT)
                                 ELSE /\ ready' = q
                                      /\ UNCHANGED <<readpc, readout>>
  /\ UNCHANGED <<busy, busy_future, query_futures, closed_exc, res, rdata, callers,
                 link, hist>>

\* _main_func resumes from "await read_task" (lines 76-83), with
\* CancelledError instead of read_task's outcome if it was cancelled meanwhile.
MainJoin ==
  /\ mainpc = "m_join"
  /\ Runnable(MainT)
  /\ mainpc' = "done"
  /\ mainout' = MainResult(IF main_cancel THEN "Cancelled" ELSE readout)
  /\ main_cancel' = FALSE
  /\ ready' = Without(MainT, ready) \o mainwaiters
  /\ mainwaiters' = <<>>
  /\ UNCHANGED <<session, futs, readpc, readout, rdata, callers, link, hist>>

\* self._main_task.cancel(), called with the ready queue q.  A task that has
\* not reached "await read_task" gets CancelledError at its next step; one
\* that awaits read_task passes the cancellation on to read_task, unless
\* read_task is done already.
CancelMain(q) ==
  IF mainpc \in {"m_init", "m_wait"}
    THEN /\ main_cancel' = TRUE
         /\ ready' = AppendNew(q, MainT)
         /\ UNCHANGED <<readpc, readout>>
  ELSE IF mainpc = "m_join" /\ readpc \in {"reading", "got"}
    THEN /\ readpc' = "done"
         /\ readout' = "Cancelled"
         /\ ready' = AppendNew(Without(ReadT, q), MainT)
         /\ UNCHANGED main_cancel
  ELSE IF mainpc = "m_join"
    THEN /\ main_cancel' = TRUE
         /\ ready' = q
         /\ UNCHANGED <<readpc, readout>>
  ELSE /\ ready' = q
       /\ UNCHANGED <<main_cancel, readpc, readout>>

----------------------------------------------------------------------------
\* The reader: _read_loop and _receive, and the link.

\* The position in _query_futures that _receive takes (line 190: the head).
QueryTargetLast(qf) == Len(qf)
QueryTarget(qf) == 1

\* Whether _receive gives the frame to _busy_future (line 186).
MotionDone(was_busy, now_busy) == busy_future # None /\ was_busy /\ ~now_busy

\* The motions the instrument is executing once it has sent the frame: the
\* answer to a motion command starts one, a completion frame ends one.
MovingAfter(p) ==
  IF p = 0 THEN moving - 1
  ELSE IF op[p] = "run" THEN moving + 1
  ELSE moving

\* The frames the instrument can send next: the answer to the oldest
\* unanswered write (payload: the caller that wrote), or the completion of a
\* motion (payload 0).  Bit 5 of the status is clear while a motion runs.
NextFrames ==
  {Frame(MovingAfter(p) = 0, p) :
     p \in {wire[i] : i \in {j \in {acked + 1} : j <= Len(wire)}}
             \cup {z \in {0} : moving > 0}}

\* The executor thread returns a line from serial.read_until (line 93) and
\* read_task is woken with it.
FrameArrives(data) ==
  /\ readpc = "reading"
  /\ serial = "open"
  /\ linkup
  /\ Len(rx) < MaxFrames
  /\ acked' = IF data.payload = 0 THEN acked ELSE acked + 1
  /\ moving' = MovingAfter(data.payload)
  /\ rdata' = data
  /\ readpc' = "got"
  /\ ready' = Append(ready, ReadT)
  /\ UNCHANGED <<session, futs, mainpc, mainout, main_cancel, mainwaiters, readout,
                 callers, wire, linkup, hist>>

\* read_task ends with the exception e: _main_task is woken.
ReadDies(e, q) ==
  /\ readpc' = "done"
  /\ readout' = e
  /\ ready' = WakeMain(q)

\* read_task goes round the loop (lines 89-93): the assert fails if the
\* teardown has closed the port meanwhile.
ReadLoops(q) ==
  IF serial = "open"
    THEN readpc' = "reading" /\ ready' = q /\ UNCHANGED readout
    ELSE ReadDies("AssertError", q)

\* read_task runs _receive on the frame it was woken with (lines 93, 182-191).
Receive ==
  /\ readpc = "got"
  /\ Runnable(ReadT)
  /\ rx' = Append(rx, rdata.payload)
  /\ busy' = BusyOf(rdata)
  /\ LET q == Without(ReadT, ready)
     IN IF MotionDone(busy, BusyOf(rdata))
          THEN /\ IF fut[busy_future] = "pending"
                    THEN /\ fut' = [fut EXCEPT ![busy_future] = "result"]
                         /\ res' = [res EXCEPT ![busy_future] = rdata]
                         /\ waiters' = Forget(<<busy_future>>)
                         /\ busy_future' = None
                         /\ ReadLoops(Resolved(q, <<busy_future>>, fut'))
                    ELSE /\ ReadDies("InvalidState", q)
                         /\ UNCHANGED <<fut, res, waiters, busy_future>>
               /\ UNCHANGED query_futures
          ELSE /\ UNCHANGED busy_future
               /\ IF query_futures = <<>>
                    THEN /\ ReadDies("ValueError", q)
                         /\ UNCHANGED <<fut, res, waiters, query_futures>>
                    ELSE LET k == QueryTarget(query_futures)
                             f == query_futures[k]
                         IN /\ query_futures' = [i \in 1..(Len(query_futures) - 1) |->
                                                   IF i < k THEN query_futures[i]
                                                            ELSE query_futures[i + 1]]
                            /\ IF fut[f] = "pending"
                                 THEN /\ fut' = [fut EXCEPT ![f] = "result"]
                                      /\ res' = [res EXCEPT ![f] = rdata]
                                      /\ waiters' = Forget(<<f>>)
                                      /\ ReadLoops(Resolved(q, <<f>>, fut'))
                                 ELSE /\ ReadDies("InvalidState", q)
                                      /\ UNCHANGED <<fut, res, waiters>>
  /\ UNCHANGED <<closing, serial, closed_exc, mainpc, mainout, main_cancel, mainwaiters,
                 rdata, callers, link, issued, ncancel, timedout, lostWaiters>>

\* The callers suspended on a pending PendingQuery or PendingMotion.
Waiting ==
  {c \in Callers : \/ pc[c] = "q_wait" /\ fut[QFut(c)] = "pending"
                   \/ pc[c] = "r_wait" /\ fut[MFut(c)] = "pending"}

\* serial.read_until raises SerialException: the link broke, or the port was
\* closed under the read (line 93).  read_task ends with it.
ReadFail ==
  /\ readpc = "reading"
  /\ ~linkup \/ serial = "closed"
  /\ ReadDies("SerialErr", ready)
  /\ lostWaiters' = IF serial = "open" THEN Waiting ELSE lostWaiters
  /\ UNCHANGED <<session, futs, mainpc, mainout, main_cancel, mainwaiters, rdata,
                 callers, link, issued, rx, ncancel, timedout>>

\* The link breaks (the instrument is unplugged).
LinkDown ==
  /\ linkup
  /\ serial = "open"
  /\ mainpc # "m_init"
  /\ linkup' = FALSE
  /\ UNCHANGED <<session, futs, ready, tasks, callers, wire, acked, moving, hist>>

----------------------------------------------------------------------------
\* _query (lines 147-169).

\* The check left out: no call is refused.
RejectsNever == FALSE

\* "if self._closing: raise AMFDeviceConnectionError" (lines 148-149, 194-195).
Rejects == closing

\* Callers are numbered in the order in which they make their call.
IsNext(c) == pc[c] = "idle" /\ \A d \in Callers : d < c => pc[d] # "idle"

\* A caller's operation ends with outcome o.  The finally of _run (line 207)
\* clears the motion slot whatever it holds.
Finish(c, o) ==
  /\ pc' = [pc EXCEPT ![c] = "done"]
  /\ outcome' = [outcome EXCEPT ![c] = o]
  /\ busy_future' = IF op[c] = "run" THEN None ELSE busy_future

\* A public query (get_valve, get_unique_id, get_valve_count) enters _query:
\* the closing check, then the append and the hand-over of the write to the
\* executor (lines 148-159).
StartQuery(c) ==
  /\ IsNext(c)
  /\ mainpc # "m_init"
  /\ op' = [op EXCEPT ![c] = "query"]
  /\ IF Rejects
       THEN /\ pc' = [pc EXCEPT ![c] = "done"]
            /\ outcome' = [outcome EXCEPT ![c] = "ConnErr"]
            /\ UNCHANGED <<fut, query_futures, issued>>
       ELSE /\ fut' = [fut EXCEPT ![QFut(c)] = "pending"]
            /\ query_futures' = Append(query_futures, QFut(c))
            /\ issued' = Append(issued, c)
            /\ pc' = [pc EXCEPT ![c] = "q_write"]
            /\ UNCHANGED outcome
  /\ UNCHANGED <<closing, serial, busy, busy_future, closed_exc, res, waiters, ready,
                 tasks, retval, guard, waitset, link, rx, ncancel, timedout, lostWaiters>>

\* The executor thread performs serial.write (line 159); the caller is woken.
LinkWrite(c) ==
  /\ pc[c] = "q_write"
  /\ linkup
  /\ serial = "open"
  /\ wire' = Append(wire, c)
  /\ pc' = [pc EXCEPT ![c] = "q_written"]
  /\ ready' = Append(ready, c)
  /\ UNCHANGED <<session, futs, tasks, op, outcome, retval, guard, waitset,
                 acked, linkup, moving, hist>>

\* serial.write raises SerialException: the link broke or the port is closed.
WriteFail(c) ==
  /\ pc[c] = "q_write"
  /\ ~linkup \/ serial = "closed"
  /\ pc' = [pc EXCEPT ![c] = "q_wfail"]
  /\ ready' = Append(ready, c)
  /\ UNCHANGED <<session, futs, tasks, op, outcome, retval, guard, waitset, link, hist>>

\* What "await future" gives for a future that is done.
AwaitOutcome(f) ==
  IF fut[f] = "result" THEN "ok"
  ELSE IF fut[f] = "exception" THEN "ConnErr"
  ELSE "Cancelled"

\* The caller has its future resolved (lines 160-163), the ready queue being
\* q.  With a result, a public query returns the parsed payload and _run
\* goes on to "await future" (line 205), which does not suspend on a done
\* future.  With the teardown's exception, the future is removed and the
\* exception raised.
QueryDone(c, q) ==
  /\ ready' = q
  /\ IF fut[QFut(c)] = "result"
       THEN /\ UNCHANGED query_futures
            /\ IF op[c] = "query"
                 THEN /\ retval' = [retval EXCEPT ![c] = Parse(res[QFut(c)])]
                      /\ Finish(c, "value")
                      /\ UNCHANGED waiters
                 ELSE /\ UNCHANGED retval
                      /\ IF fut[MFut(c)] = "pending"
                           THEN /\ pc' = [pc EXCEPT ![c] = "r_wait"]
                                /\ waiters' = [waiters EXCEPT ![MFut(c)] = Append(@, c)]
                                /\ UNCHANGED <<outcome, busy_future>>
                           ELSE /\ Finish(c, AwaitOutcome(MFut(c)))
                                /\ UNCHANGED waiters
       ELSE /\ UNCHANGED <<retval, waiters>>
            /\ IF InSeq(QFut(c), query_futures)
                 THEN /\ query_futures' = Remove(QFut(c), query_futures)
                      /\ Finish(c, "ConnErr")
                 ELSE /\ UNCHANGED query_futures
                      /\ Finish(c, "ValueError")

\* The caller resumes after the write and enters wait_for(future, 2.0)
\* (line 160): it suspends unless the future is already done.
QueryWritten(c) ==
  /\ pc[c] = "q_written"
  /\ Runnable(c)
  /\ IF fut[QFut(c)] = "pending"
       THEN /\ pc' = [pc EXCEPT ![c] = "q_wait"]
            /\ waiters' = [waiters EXCEPT ![QFut(c)] = <<c>>]
            /\ ready' = Without(c, ready)
            /\ UNCHANGED <<outcome, retval, busy_future, query_futures>>
       ELSE QueryDone(c, Without(c, ready))
  /\ UNCHANGED <<closing, serial, busy, closed_exc, fut, res, tasks, op, guard,
                 waitset, link, hist>>

\* The caller resumes from wait_for with the future resolved.
QueryResume(c) ==
  /\ pc[c] = "q_wait"
  /\ Runnable(c)
  /\ QueryDone(c, Without(c, ready))
  /\ UNCHANGED <<closing, serial, busy, closed_exc, fut, res, tasks, op, guard,
                 waitset, link, hist>>

\* The 2 second timer of wait_for fires before the future is done: the
\* future is cancelled and the caller is woken with TimeoutError.
Timeout(c) ==
  /\ pc[c] = "q_wait"
  /\ fut[QFut(c)] = "pending"
  /\ fut' = [fut EXCEPT ![QFut(c)] = "cancelled"]
  /\ waiters' = Forget(<<QFut(c)>>)
  /\ ready' = Resolved(ready, <<QFut(c)>>, fut')
  /\ pc' = [pc EXCEPT ![c] = "q_timedout"]
  /\ timedout' = timedout \cup {c}
  /\ UNCHANGED <<session, res, tasks, op, outcome, retval, guard, waitset, link,
                 issued, rx, ncancel, lostWaiters>>

\* The exception a failed wait or write raised in _query.
QueryError(c) == IF pc[c] = "q_timedout" THEN "Timeout" ELSE "SerialErr"

\* What closed() raises once _main_task is done (lines 129-133, 166-169):
\* the task's exception, or the original exception if the task returned.
ClosedOutcome(e) == IF mainout = "ok" THEN e ELSE mainout

\* The caller resumes with TimeoutError or SerialException (lines 161-166):
\* remove the future, record the cause in _closed_exc (which wakes
\* _main_task), wait in closed().
QueryFailed(c) ==
  /\ pc[c] \in {"q_timedout", "q_wfail"}
  /\ Runnable(c)
  /\ LET q == Without(c, ready)
     IN IF ~InSeq(QFut(c), query_futures)
          THEN /\ Finish(c, "ValueError")
               /\ ready' = q
               /\ UNCHANGED <<query_futures, closed_exc, mainwaiters>>
          ELSE /\ query_futures' = Remove(QFut(c), query_futures)
               /\ IF closed_exc # "pending"
                    THEN /\ Finish(c, "InvalidState")
                         /\ ready' = q
                         /\ UNCHANGED <<closed_exc, mainwaiters>>
                    ELSE /\ closed_exc' = "exception"
                         /\ IF mainpc = "done"
                              THEN /\ Finish(c, ClosedOutcome(QueryError(c)))
                                   /\ ready' = q
                                   /\ UNCHANGED mainwaiters
                              ELSE /\ pc' = [pc EXCEPT ![c] = "q_closed"]
                                   /\ outcome' = [outcome EXCEPT ![c] = QueryError(c)]
                                   /\ mainwaiters' = Append(mainwaiters, c)
                                   /\ ready' = IF mainpc = "m_wait"
                                                 THEN AppendNew(q, MainT) ELSE q
                                   /\ UNCHANGED busy_future
  /\ UNCHANGED <<closing, serial, busy, futs, mainpc, mainout, main_cancel, readpc,
                 readout, rdata, op, retval, guard, waitset, link, hist>>

\* closed() returns or raises when _main_task is done (lines 130, 166-169).
QueryClosed(c) ==
  /\ pc[c] = "q_closed"
  /\ Runnable(c)
  /\ ready' = Without(c, ready)
  /\ Finish(c, ClosedOutcome(outcome[c]))
  /\ UNCHANGED <<closing, serial, busy, query_futures, closed_exc, futs, tasks,
                 op, retval, guard, waitset, link, hist>>

\* task.cancel() on a caller suspended in wait_for: the future it awaits is
\* cancelled at once and the caller is woken with CancelledError.
CancelQuery(c) ==
  /\ pc[c] = "q_wait"
  /\ fut[QFut(c)] = "pending"
  /\ ncancel < MaxCancels
  /\ ncancel' = ncancel + 1
  /\ fut' = [fut EXCEPT ![QFut(c)] = "cancelled"]
  /\ waiters' = Forget(<<QFut(c)>>)
  /\ ready' = Resolved(ready, <<QFut(c)>>, fut')
  /\ pc' = [pc EXCEPT ![c] = "q_cancelled"]
  /\ UNCHANGED <<session, res, tasks, op, outcome, retval, guard, waitset, link,
                 issued, rx, timedout, lostWaiters>>

\* The cancelled caller resumes with CancelledError (lines 161-163).
QueryCancelled(c) ==
  /\ pc[c] = "q_cancelled"
  /\ Runnable(c)
  /\ ready' = Without(c, ready)
  /\ IF InSeq(QFut(c), query_futures)
       THEN /\ query_futures' = Remove(QFut(c), query_futures)
            /\ Finish(c, "Cancelled")
       ELSE /\ UNCHANGED query_futures
            /\ Finish(c, "ValueError")
  /\ UNCHANGED <<closing, serial, busy, closed_exc, futs, tasks, op, retval,
                 guard, waitset, link, hist>>

----------------------------------------------------------------------------
\* _run (lines 193-207).

\* The while loop, the installation of the placeholder and the start of
\* _query (lines 197-204, 148-159), run without suspending unless the slot is
\* taken.  Awaiting a slot future that is already done raises at once.  When
\* _query refuses (closing), the finally clears the slot in the same step, so
\* the placeholder of line 200 is never visible.
GuardStep(c) ==
  IF busy_future # None
    THEN /\ IF fut[busy_future] \in {"exception", "cancelled"}
              THEN /\ pc' = [pc EXCEPT ![c] = "done"]
                   /\ outcome' = [outcome EXCEPT ![c] = AwaitOutcome(busy_future)]
                   /\ UNCHANGED <<guard, waiters>>
              ELSE /\ pc' = [pc EXCEPT ![c] = "r_guard"]
                   /\ guard' = [guard EXCEPT ![c] = busy_future]
                   /\ waiters' = [waiters EXCEPT ![busy_future] = Append(@, c)]
                   /\ UNCHANGED outcome
         /\ UNCHANGED <<busy_future, fut, query_futures, issued>>
    ELSE /\ UNCHANGED <<guard, waiters>>
         /\ IF Rejects
              THEN /\ pc' = [pc EXCEPT ![c] = "done"]
                   /\ outcome' = [outcome EXCEPT ![c] = "ConnErr"]
                   /\ busy_future' = None
                   /\ UNCHANGED <<fut, query_futures, issued>>
              ELSE /\ busy_future' = MFut(c)
                   /\ fut' = [fut EXCEPT ![MFut(c)] = "pending", ![QFut(c)] = "pending"]
                   /\ query_futures' = Append(query_futures, QFut(c))
                   /\ issued' = Append(issued, c)
                   /\ pc' = [pc EXCEPT ![c] = "q_write"]
                   /\ UNCHANGED outcome

\* A motion command (home, rotate, wait) enters _run (lines 194-204).
StartRun(c) ==
  /\ IsNext(c)
  /\ mainpc # "m_init"
  /\ op' = [op EXCEPT ![c] = "run"]
  /\ IF Rejects
       THEN /\ pc' = [pc EXCEPT ![c] = "done"]
            /\ outcome' = [outcome EXCEPT ![c] = "ConnErr"]
            /\ UNCHANGED <<busy_future, fut, query_futures, issued, guard, waiters>>
       ELSE GuardStep(c)
  /\ UNCHANGED <<closing, serial, busy, closed_exc, res, ready, tasks, retval, waitset,
                 link, rx, ncancel, timedout, lostWaiters>>

\* A caller blocked on line 198 resumes when the future it awaited is done.
RunGuardWake(c) ==
  /\ pc[c] = "r_guard"
  /\ Runnable(c)
  /\ ready' = Without(c, ready)
  /\ IF fut[guard[c]] = "result"
       THEN GuardStep(c)
       ELSE /\ pc' = [pc EXCEPT ![c] = "done"]
            /\ outcome' = [outcome EXCEPT ![c] = AwaitOutcome(guard[c])]
            /\ UNCHANGED <<busy_future, fut, query_futures, issued, guard, waiters>>
  /\ UNCHANGED <<closing, serial, busy, closed_exc, res, tasks, op, retval, waitset,
                 link, rx, ncancel, timedout, lostWaiters>>

\* The caller resumes from "await future" (lines 205-207).
RunWake(c) ==
  /\ pc[c] = "r_wait"
  /\ Runnable(c)
  /\ ready' = Without(c, ready)
  /\ Finish(c, AwaitOutcome(MFut(c)))
  /\ UNCHANGED <<closing, serial, busy, query_futures, closed_exc, futs, tasks,
                 op, retval, guard, waitset, link, hist>>

\* task.cancel() on a caller blocked on line 198 cancels the future it
\* awaits, which is the placeholder of the caller that holds the slot; every
\* caller suspended on that future is woken with CancelledError.
CancelGuard(c) ==
  /\ pc[c] = "r_guard"
  /\ fut[guard[c]] = "pending"
  /\ ncancel < MaxCancels
  /\ ncancel' = ncancel + 1
  /\ fut' = [fut EXCEPT ![guard[c]] = "cancelled"]
  /\ waiters' = Forget(<<guard[c]>>)
  /\ ready' = Resolved(ready, <<guard[c]>>, fut')
  /\ UNCHANGED <<session, res, tasks, callers, link, issued, rx, timedout, lostWaiters>>

\* task.cancel() on a caller suspended on line 205 cancels its placeholder.
CancelMotion(c) ==
  /\ pc[c] = "r_wait"
  /\ fut[MFut(c)] = "pending"
  /\ ncancel < MaxCancels
  /\ ncancel' = ncancel + 1
  /\ fut' = [fut EXCEPT ![MFut(c)] = "cancelled"]
  /\ waiters' = Forget(<<MFut(c)>>)
  /\ ready' = Resolved(ready, <<MFut(c)>>, fut')
  /\ UNCHANGED <<session, res, tasks, callers, link, issued, rx, timedout, lostWaiters>>

----------------------------------------------------------------------------
\* close (lines 97-116).

\* close() without its except clauses: the outcome of _main_task as it is.
CloseResultUncaught(m) == m

\* What close() ends with once _main_task is done (lines 111-116).
CloseResult(m) == IF m \in {"LostErr", "Cancelled", "ok"} THEN "ok" ELSE m

\* "await self._main_task" (line 112), after self._main_task.cancel()
\* (line 109) when doCancel, the ready queue being q.  Awaiting a task that
\* is done does not suspend.
JoinMain(c, doCancel, q) ==
  IF mainpc = "done"
    THEN /\ pc' = [pc EXCEPT ![c] = "done"]
         /\ outcome' = [outcome EXCEPT ![c] = CloseResult(mainout)]
         /\ ready' = q
         /\ UNCHANGED <<main_cancel, mainwaiters, readpc, readout>>
    ELSE /\ pc' = [pc EXCEPT ![c] = "c_join"]
         /\ mainwaiters' = Append(mainwaiters, c)
         /\ UNCHANGED outcome
         /\ IF doCancel
              THEN CancelMain(q)
              ELSE ready' = q /\ UNCHANGED <<main_cancel, readpc, readout>>

\* The futures close() waits for (line 104).
CloseFutures ==
  {query_futures[i] : i \in 1..Len(query_futures)} \cup ({busy_future} \ {None})

\* close() up to its first suspension (lines 102-112).
StartClose(c) ==
  /\ IsNext(c)
  /\ op' = [op EXCEPT ![c] = "close"]
  /\ closing' = TRUE
  /\ IF ~closing /\ CloseFutures # {}
       THEN /\ pc' = [pc EXCEPT ![c] = "c_wait"]
            /\ waitset' = [waitset EXCEPT ![c] = CloseFutures]
            /\ ready' = IF \A f \in CloseFutures : Done(f)
                          THEN Append(ready, c) ELSE ready
            /\ UNCHANGED <<outcome, main_cancel, mainwaiters, readpc, readout>>
       ELSE /\ JoinMain(c, ~closing, ready)
            /\ UNCHANGED waitset
  /\ UNCHANGED <<serial, busy, busy_future, query_futures, closed_exc, futs,
                 mainpc, mainout, rdata, retval, guard, link, hist>>

\* asyncio.wait returns: every future of line 104 is done (lines 107-112).
CloseAfterWait(c) ==
  /\ pc[c] = "c_wait"
  /\ Runnable(c)
  /\ JoinMain(c, TRUE, Without(c, ready))
  /\ UNCHANGED <<session, futs, mainpc, mainout, rdata, op, retval, guard, waitset,
                 link, hist>>

\* close() resumes from "await self._main_task" (lines 112-116).
CloseJoin(c) ==
  /\ pc[c] = "c_join"
  /\ Runnable(c)
  /\ ready' = Without(c, ready)
  /\ pc' = [pc EXCEPT ![c] = "done"]
  /\ outcome' = [outcome EXCEPT ![c] = CloseResult(mainout)]
  /\ UNCHANGED <<session, futs, tasks, op, retval, guard, waitset, link, hist>>

\* task.cancel() on a close() caller suspended in asyncio.wait (line 107):
\* CancelledError leaves close() before _main_task.cancel().
CancelCloseWait(c) ==
  /\ pc[c] = "c_wait"
  /\ ncancel < MaxCancels
  /\ ncancel' = ncancel + 1
  /\ ready' = Without(c, ready)
  /\ pc' = [pc EXCEPT ![c] = "done"]
  /\ outcome' = [outcome EXCEPT ![c] = "Cancelled"]
  /\ UNCHANGED <<session, futs, tasks, op, retval, guard, waitset, link,
                 issued, rx, timedout, lostWaiters>>

\* task.cancel() on a close() caller suspended on line 112 cancels the task
\* it awaits, _main_task; close() resumes when that task is done.
CancelCloseJoin(c) ==
  /\ pc[c] = "c_join"
  /\ \/ mainpc \in {"m_init", "m_wait"} /\ ~main_cancel
     \/ mainpc = "m_join" /\ (readpc \in {"reading", "got"} \/ ~main_cancel)
  /\ ncancel < MaxCancels
  /\ ncancel' = ncancel + 1
  /\ CancelMain(ready)
  /\ UNCHANGED <<session, futs, mainpc, mainout, mainwaiters, rdata, callers, link,
                 issued, rx, timedout, lostWaiters>>

----------------------------------------------------------------------------
Next ==
  \/ MainStart
  \/ MainTeardown
  \/ MainJoin
  \/ \E data \in NextFrames : FrameArrives(data)
  \/ Receive
  \/ ReadFail
  \/ LinkDown
  \/ \E c \in Callers :
       \/ StartQuery(c)
       \/ LinkWrite(c)
       \/ WriteFail(c)
       \/ QueryWritten(c)
       \/ QueryResume(c)
       \/ Timeout(c)
       \/ QueryFailed(c)
       \/ QueryClosed(c)
       \/ CancelQuery(c)
       \/ QueryCancelled(c)
       \/ StartRun(c)
       \/ RunGuardWake(c)
       \/ RunWake(c)
       \/ CancelGuard(c)
       \/ CancelMotion(c)
       \/ StartClose(c)
       \/ CloseAfterWait(c)
       \/ CloseJoin(c)
       \/ CancelCloseWait(c)
       \/ CancelCloseJoin(c)

Spec == Init /\ [][Next]_vars

\* The sessions on which only non-motion queries and close() are called, with
\* no timeout and no cancellation.
NextQueries ==
  \/ MainStart
  \/ MainTeardown
  \/ MainJoin
  \/ \E data \in NextFrames : FrameArrives(data)
  \/ Receive
  \/ ReadFail
  \/ LinkDown
  \/ \E c \in Callers :
       \/ StartQuery(c)
       \/ LinkWrite(c)
       \/ WriteFail(c)
       \/ QueryWritten(c)
       \/ QueryResume(c)
       \/ QueryFailed(c)
       \/ QueryClosed(c)
       \/ StartClose(c)
       \/ CloseAfterWait(c)
       \/ CloseJoin(c)

SpecQueries == Init /\ [][NextQueries]_vars

----------------------------------------------------------------------------
\* Properties.

Last(s) == s[Len(s)]

\* The commands were written to the link in the order in which _query
\* appended their futures.
WritesInOrder == \A i \in 1..Len(wire) : wire[i] = issued[i]

\* No motion command (so one frame per write), no timeout, no cancellation.
PlainQueries ==
  /\ \A c \in Callers : op[c] # "run"
  /\ timedout = {}
  /\ ncancel = 0

\* C1: FIFO correlation.  When only non-motion queries are issued, their
\* writes reach the link in the order in which they were issued, and the link
\* delivers one frame per write in that order (no timeout, no cancellation),
\* the i-th query issued returns the payload of the i-th frame received.
C1_FifoCorrelation ==
  (PlainQueries /\ WritesInOrder) =>
    \A i \in 1..Len(issued) :
      outcome[issued[i]] = "value" =>
        i <= Len(rx) /\ retval[issued[i]] = rx[i]

\* Witness of C1: three queries written in the order issued; the first has
\* returned the payload of the first frame, the second frame has resolved the
\* second query, whose caller has not resumed yet, and the third query still
\* waits for its frame.
C1_Witness ==
  /\ PlainQueries /\ WritesInOrder
  /\ wire = <<1, 2, 3>> /\ Len(rx) = 2
  /\ outcome[1] = "value" /\ retval[1] = rx[1]
  /\ pc[2] = "q_wait" /\ fut[QFut(2)] = "result"
  /\ pc[3] = "q_wait" /\ fut[QFut(3)] = "pending"

\* C2: at-most-once resolution.  No step of _receive and no step of the
\* teardown in _main_func calls set_result or set_exception on a future that
\* is already done (asyncio answers such a call with InvalidStateError, which
\* ends the task that made it).
C2_AtMostOnce == readout # "InvalidState" /\ mainout # "InvalidState"

\* C3: busy/idle routing.  A received frame resolves the PendingMotion,
\* clears the slot and leaves the queue alone when a PendingMotion exists and
\* busy goes from true to false; otherwise, when a query is pending, it
\* resolves the oldest PendingQuery, removes it from the queue and leaves
\* the PendingMotion untouched.
C3_Routing ==
  [][rx' # rx =>
       IF busy_future # None /\ busy /\ ~busy'
         THEN /\ fut'[busy_future] = "result"
              /\ res'[busy_future].payload = Last(rx')
              /\ busy_future' = None
              /\ query_futures' = query_futures
         ELSE query_futures # <<>> =>
                /\ fut'[Head(query_futures)] = "result"
                /\ res'[Head(query_futures)].payload = Last(rx')
                /\ query_futures' = Tail(query_futures)
                /\ busy_future' = busy_future
                /\ busy_future # None => fut'[busy_future] = fut[busy_future]]_vars

\* C4: link failure drains all waiters.  Every caller that was waiting for a
\* frame when a read on the open link failed ends with
\* AMFDeviceConnectionLostError, and once _main_task is done after such a
\* failure the session is marked failed (closing set, port closed).
C4_LinkFailureDrains ==
  /\ \A c \in lostWaiters : pc[c] = "done" => outcome[c] = "LostErr"
  /\ (lostWaiters # {} /\ mainpc = "done") => (closing /\ serial = "closed")

\* C5: timeout marks the session failed.  A query whose timer fired ends
\* with the timeout reported as a connection error (TimeoutError, or the
\* AMFDeviceConnectionLostError that closed() raises from it), also when
\* several queries time out concurrently, and by then the session is failed.
C5_TimeoutFails ==
  \A c \in timedout :
    pc[c] = "done" => outcome[c] \in {"Timeout", "LostErr"} /\ closing

\* A _run call that has installed its placeholder (line 201), has not left
\* the try block (lines 203-207) and whose completion signal is still awaited.
InMotion(c) ==
  /\ op[c] = "run"
  /\ pc[c] \in {"q_write", "q_written", "q_wait", "q_timedout", "q_wfail",
                "q_closed", "q_cancelled", "r_wait"}
  /\ fut[MFut(c)] = "pending"

\* C6: motion commands are mutually exclusive.  At most one _run call at a
\* time holds a PendingMotion whose completion signal is still awaited, so
\* that no _run call writes its command while an earlier motion is running.
C6_MotionExclusive ==
  Cardinality({c \in Callers : InMotion(c)}) <= 1

\* C7: cancellation keeps the registration.  The PendingQuery of a cancelled
\* query() caller stays in the queue, at the same distance from the entries
\* behind it, until _receive takes it as the head of the queue.
C7_CancelKeepsRegistration ==
  [][\A c \in Callers :
       (pc[c] = "q_cancelled" /\ InSeq(QFut(c), query_futures)) =>
         \/ InSeq(QFut(c), query_futures')
         \/ (rx' # rx /\ Head(query_futures) = QFut(c))]_vars

\* The session is closing, closed or failed: the flag is set, or a timeout or
\* a write error recorded its cause, or the reader has stopped.
NotOpen == closing \/ closed_exc = "exception" \/ readpc = "done"

\* C8: operations outside Open are rejected.  A query() or run() that starts
\* when the session is closing, closed or failed fails at once with
\* AMFDeviceConnectionError, appends no PendingQuery, creates no
\* PendingMotion and hands no write to the executor.
C8_RejectedOutsideOpen ==
  [][\A c \in Callers :
       (pc[c] = "idle" /\ pc'[c] # "idle" /\ op'[c] \in {"query", "run"} /\ NotOpen) =>
         /\ pc'[c] = "done"
         /\ outcome'[c] = "ConnErr"
         /\ UNCHANGED <<query_futures, busy_future, fut, wire>>]_vars

\* A caller suspended on a placeholder that has no timeout and that nothing
\* will resolve: the reader and _main_task have ended.
Stranded(c) ==
  /\ mainpc = "done"
  /\ readpc \in {"none", "done"}
  /\ \/ pc[c] = "r_wait" /\ fut[MFut(c)] = "pending"
     \/ pc[c] = "r_guard" /\ fut[guard[c]] = "pending"

\* C9: no waiter is left unresolved at shutdown.  Once a close() call has
\* returned, no caller that made its call before it is still suspended on a
\* PendingMotion that neither the router nor the teardown will resolve.
C9_NoWaiterStranded ==
  \A k \in Callers :
    (op[k] = "close" /\ pc[k] = "done" /\ outcome[k] = "ok") =>
      \A c \in Callers : c < k => ~Stranded(c)

\* The steps that happen without any new call or cancellation from the
\* application: the steps of the tasks that are ready, a write handed to the
\* executor, a timer that is armed, the frames the instrument owes, and the
\* error of a read on the closed port.
Progress ==
  \/ MainStart \/ MainTeardown \/ MainJoin \/ Receive
  \/ (serial = "closed" /\ ReadFail)
  \/ \E data \in NextFrames : FrameArrives(data)
  \/ \E c \in Callers :
       \/ LinkWrite(c) \/ WriteFail(c) \/ Timeout(c)
       \/ QueryWritten(c) \/ QueryResume(c) \/ QueryFailed(c)
       \/ QueryClosed(c) \/ QueryCancelled(c)
       \/ RunGuardWake(c) \/ RunWake(c)
       \/ CloseAfterWait(c) \/ CloseJoin(c)

\* C10: a cancelled close() can be completed by calling close() again.
\* After a close() call was cancelled, a later close() call that waits for
\* _main_task is released without any event from outside the session: some
\* step that leads to the end of _main_task is enabled.
C10_SecondCloseCompletes ==
  \A k \in Callers :
    ( /\ op[k] = "close" /\ pc[k] = "c_join"
      /\ \E j \in Callers : j < k /\ op[j] = "close" /\ outcome[j] = "Cancelled" )
    => ENABLED Progress

\* C11: close() postcondition.  Whenever a close() call has returned
\* normally, read_task is not running and the serial port has been closed.
C11_ClosePostcondition ==
  \A c \in Callers :
    (op[c] = "close" /\ pc[c] = "done" /\ outcome[c] = "ok") =>
      (serial = "closed" /\ readpc \in {"none", "done"})

\* A close() call made after another close() call: _closing is set already.
RepeatedClose(c) ==
  /\ op[c] = "close"
  /\ \E j \in Callers : j < c /\ op[j] = "close"

\* C12 as stated: repeated close is an error.  A close() call made while the
\* session is already closing or closed fails with AlreadyClosing or
\* AlreadyClosed and never returns normally.
C12_RepeatedCloseFails ==
  \A c \in Callers :
    (RepeatedClose(c) /\ pc[c] = "done") =>
      outcome[c] \in {"AlreadyClosing", "AlreadyClosed"}

\* C12 as the code has it: a repeated close() ends only once _main_task is
\* done, and then returns normally when that task returned, was cancelled or
\* ended with AMFDeviceConnectionLostError, and raises the task's exception
\* otherwise.
C12_RepeatedCloseReturns ==
  \A c \in Callers :
    (RepeatedClose(c) /\ pc[c] = "done") =>
      /\ mainpc = "done"
      /\ outcome[c] = IF mainout \in {"ok", "Cancelled", "LostErr"}
                        THEN "ok" ELSE mainout

\* Witness of C12: the second of two close() calls has returned normally
\* after a session whose link was lost.
C12_Witness ==
  /\ op[1] = "query" /\ op[2] = "close" /\ RepeatedClose(3)
  /\ pc[3] = "done" /\ outcome[3] = "ok"
  /\ mainout = "LostErr"

\* C13: enqueue and write are indivisible.  The commands reach the link in
\* the order in which _query appended their PendingQuery: of two commands
\* written, the one written first was appended first.
C13_QueueOrderIsWriteOrder ==
  \A i, j \in 1..Len(wire) :
    i < j => IndexOf(wire[i], issued) < IndexOf(wire[j], issued)

\* The _run call that made the placeholder f.
MotionOwner(f) == f - NCallers

\* C14: the motion guard is released on every exit path of run().  No run()
\* caller is suspended in the guard loop (line 198) on a placeholder that is
\* still pending although the call that made it has exited.
C14_GuardReleased ==
  \A c \in Callers :
    pc[c] = "r_guard" =>
      ~(fut[guard[c]] = "pending" /\ pc[MotionOwner(guard[c])] = "done")

\* read_task has ended on a frame that _receive could give to nobody (the
\* unpacking of line 190 fails on the empty list).
Unmatched == readout = "ValueError"

\* C15: an unmatched frame is fatal.  Once a frame that is not a motion
\* completion has arrived with the pending-query queue empty, the router has
\* stopped; when _main_task has ended the session is failed (closing flag
\* set, port closed, PendingMotion resolved); and a query() or run() that
\* starts afterwards fails at once, appending and writing nothing.
C15_UnmatchedFrameFatal ==
  [][/\ Unmatched' => readpc' = "done"
     /\ (Unmatched' /\ mainpc' = "done") =>
          /\ closing' /\ serial' = "closed"
          /\ busy_future' # None => fut'[busy_future'] # "pending"
     /\ \A c \in Callers :
          (Unmatched /\ pc[c] = "idle" /\ pc'[c] # "idle"
             /\ op'[c] \in {"query", "run"}) =>
            /\ pc'[c] = "done"
            /\ UNCHANGED <<query_futures, busy_future, wire>>]_vars

\* C16: write failure.  When the caller of a query whose serial.write failed
\* resumes, its PendingQuery is removed and the other entries keep their
\* order, the failure is recorded, and the caller ends with
\* AMFDeviceConnectionLostError, at once or when closed() returns.
C16_WriteFailure ==
  [][\A c \in Callers :
       /\ (pc[c] = "q_wfail" /\ pc'[c] # "q_wfail") =>
            /\ InSeq(QFut(c), query_futures)
            /\ query_futures' = Remove(QFut(c), query_futures)
            /\ closed_exc' = "exception"
            /\ \/ pc'[c] = "q_closed"
               \/ pc'[c] = "done" /\ outcome'[c] = "LostErr"
       /\ (pc[c] = "q_closed" /\ outcome[c] = "SerialErr" /\ pc'[c] = "done") =>
            outcome'[c] = "LostErr"]_vars

\* The PendingMotion in the slot and the PendingQuery entries of the queue.
Registered ==
  {query_futures[i] : i \in 1..Len(query_futures)} \cup ({busy_future} \ {None})

\* C17: teardown ordering.  Whenever the serial port is closed, the
\* PendingMotion in the slot and every PendingQuery in the queue are
\* resolved: none of them is resolved only after the port was closed.
C17_ResolvedBeforeLinkClosed ==
  serial = "closed" => \A f \in Registered : fut[f] \in DoneStates

\* Witness of C17: the teardown has closed the port with a PendingMotion in
\* the slot and PendingQuery entries in the queue, all of them failed, before
\* any of their callers has resumed.
C17_Witness ==
  /\ serial = "closed"
  /\ busy_future # None /\ fut[busy_future] = "exception"
  /\ Len(query_futures) = 2
  /\ \A f \in Registered : fut[f] = "exception"
  /\ \E c \in Callers : pc[c] = "q_wait" /\ QFut(c) \in Registered

\* C18: failure and closing are absorbing.  Once _closing is set it is never
\* cleared, the port once closed is never reopened, and a query() or run()
\* that starts while _closing is set ends at once with
\* AMFDeviceConnectionError, so it never returns a value.
C18_ClosingAbsorbing ==
  [][/\ closing => closing'
     /\ serial = "closed" => serial' = "closed"
     /\ \A c \in Callers :
          (closing /\ pc[c] = "idle" /\ pc'[c] # "idle"
             /\ op'[c] \in {"query", "run"}) =>
            /\ pc'[c] = "done"
            /\ outcome'[c] = "ConnErr"
            /\ UNCHANGED <<query_futures, busy_future, wire>>]_vars

\* Witness of C18: after a timeout has failed the session, a query() and a
\* run() were called and refused: neither appended a future.
C18_Witness ==
  /\ closing /\ serial = "closed" /\ timedout # {}
  /\ \E c, d \in Callers :
       /\ op[c] = "query" /\ op[d] = "run"
       /\ ~InSeq(c, issued) /\ ~InSeq(d, issued)
       /\ outcome[c] = "ConnErr" /\ outcome[d] = "ConnErr"
       /\ guard[d] = None

\* C19: motion-slot ownership.  While a run() call is in its try block with
\* its placeholder still pending, the slot holds that placeholder: no other
\* call's exit has cleared or replaced it.
C19_SlotOwnership ==
  \A c \in Callers : InMotion(c) => busy_future = MFut(c)

\* C20: failure cause recorded once.  Whenever a caller whose query timed
\* out or whose write failed reaches self._closed_exc.set_exception(e)
\* (line 165, after the removal of line 162 succeeded), the cell is still
\* pending: no caller sets it a second time and gets InvalidStateError.
C20_CauseRecordedOnce ==
  [][\A c \in Callers :
       (/\ pc[c] \in {"q_timedout", "q_wfail"} /\ pc'[c] # pc[c]
        /\ InSeq(QFut(c), query_futures)) =>
         closed_exc = "pending"]_vars

====
